---- MODULE Spec2Model ----
(***************************************************************************)
(* Model of catprinter's BLE session driver (src/catprinter/ble.py):       *)
(* address resolution, scanning, the connect / negotiate / preamble /      *)
(* stream / flush session of run_ble, and the chunkify generator.          *)
(*                                                                         *)
(* Strings are sequences of one-character strings; Python's None is the    *)
(* one-element sequence NoneVal, whose element is not a character.         *)
(***************************************************************************)
EXTENDS Integers, Sequences, FiniteSets, TLC

VARIABLES
    pc,          \* position of the run_ble coroutine
    device,      \* the `device` argument of run_ble
    address,     \* value bound to `address` in run_ble
    scanCalls,   \* name filters scan() has been called with, in order
    seen,        \* advertisements handed to matches(), with its verdict
    exc,         \* exception that left run_ble ("none" when there is none)
    log,         \* operations issued on the BLE transport, in order
    isBlueZ,     \* isinstance(client, BleakClientBlueZDBus)
    mtu_size,    \* client.mtu_size
    chunk_size,  \* run_ble's chunk_size / chunkify's size argument
    lines,       \* lines yielded so far by get_input_lines()
    text,        \* the loop variable `text`
    data,        \* the command buffer being chunked
    ci,          \* the range() index inside chunkify
    yielded,     \* fragments the current chunkify generator has yielded
    reported,    \* logger.error of line 88 has run
    piped,       \* not sys.stdin.isatty()
    nread,       \* raw lines read from standard input so far
    stdin,       \* the raw lines read from standard input, in order
    jobs         \* PrintJobs encoded so far: the text and the buffer length

vars == <<pc, device, address, scanCalls, seen, exc, log, isBlueZ, mtu_size,
          chunk_size, lines, text, data, ci, yielded, reported, piped, nread,
          stdin, jobs>>

Min(a, b) == IF a < b THEN a ELSE b

(***************************************************************************)
(* Bounds of the model.                                                    *)
(***************************************************************************)
MaxAdverts == 2    \* advertisements that arrive during one scan
MaxLines == 2      \* raw lines standard input delivers
MaxLen == 41       \* length of an encoded command buffer
MaxMtuExtra == 1   \* how far above the default the negotiated MTU may be
MaxBuf == 4        \* buffer length when chunkify is exercised on its own
MaxSize == 3       \* largest size argument when chunkify is exercised alone

(***************************************************************************)
(* Characters and strings.                                                 *)
(***************************************************************************)
NoneVal == <<"<None>">>

Digits == {"0","1","2","3","4","5","6","7","8","9"}
LowerHex == {"a","b","c","d","e","f"}
UpperHex == {"A","B","C","D","E","F"}
HexDigits == Digits \cup LowerHex \cup UpperHex
Letters == LowerHex \cup UpperHex \cup
           {"g","i","n","o","r","s","t","u","x","z","G","T","X"}

\* str.isalnum(): non-empty and every character alphanumeric
isalnum(s) == Len(s) > 0 /\ \A k \in 1..Len(s) : s[k] \in Digits \cup Letters

\* str.count(c) for a one-character c
count(s, c) == Cardinality({k \in 1..Len(s) : s[k] = c})

RECURSIVE replace(_, _)
\* str.replace(pat, ""): remove non-overlapping occurrences, left to right
replace(s, pat) ==
    IF Len(s) < Len(pat) \/ Len(pat) = 0 THEN s
    ELSE IF SubSeq(s, 1, Len(pat)) = pat
         THEN replace(SubSeq(s, Len(pat) + 1, Len(s)), pat)
         ELSE <<Head(s)>> \o replace(Tail(s), pat)

RECURSIVE lstrip(_, _)
lstrip(s, cs) == IF Len(s) > 0 /\ Head(s) \in cs THEN lstrip(Tail(s), cs) ELSE s

RECURSIVE rstrip(_, _)
rstrip(s, cs) ==
    IF Len(s) > 0 /\ s[Len(s)] \in cs THEN rstrip(SubSeq(s, 1, Len(s) - 1), cs)
    ELSE s

\* str.strip(chars)
strip(s, cs) == rstrip(lstrip(s, cs), cs)

lower(c) ==
    CASE c = "A" -> "a" [] c = "B" -> "b" [] c = "C" -> "c"
      [] c = "D" -> "d" [] c = "E" -> "e" [] c = "F" -> "f"
      [] c = "G" -> "g" [] c = "T" -> "t" [] c = "X" -> "x"
      [] OTHER -> c

(***************************************************************************)
(* uuid.UUID(hex) and str() of it, as ble.py line 50 uses them.            *)
(***************************************************************************)
UuidHexLen == 32

\* the text uuid.UUID hands to int(hex, 16)
uuid_hex(s) ==
    replace(strip(replace(replace(s, <<"u","r","n",":">>),
                          <<"u","u","i","d",":">>),
                  {"{", "}"}),
            <<"-">>)

\* int(text, 16) accepts surrounding blanks, a plus sign, a 0x prefix and
\* single underscores between digits; the result is the digit string.
int_body(s) ==
    LET a == strip(s, {" "})
        b == IF Len(a) > 0 /\ Head(a) = "+" THEN Tail(a) ELSE a
        p == Len(b) >= 2 /\ b[1] = "0" /\ b[2] \in {"x", "X"}
        c == IF p THEN SubSeq(b, 3, Len(b)) ELSE b
        d == IF p /\ Len(c) > 0 /\ Head(c) = "_" THEN Tail(c) ELSE c
    IN  d

int_ok(s) ==
    LET d == int_body(s)
    IN  /\ Len(d) > 0
        /\ \A k \in 1..Len(d) : d[k] \in HexDigits \cup {"_"}
        /\ d[1] # "_" /\ d[Len(d)] # "_"
        /\ \A k \in 1..(Len(d) - 1) : ~(d[k] = "_" /\ d[k + 1] = "_")

\* uuid.UUID(s) does not raise ValueError
uuid_parses(s) ==
    LET h == uuid_hex(s) IN Len(h) = UuidHexLen /\ int_ok(h)

\* str(uuid.UUID(s)): '%032x' of the value, cut 8-4-4-4-12
uuid_format(s) ==
    LET d == replace(int_body(uuid_hex(s)), <<"_">>)
        x == [k \in 1..UuidHexLen |->
                 IF k <= UuidHexLen - Len(d) THEN "0"
                 ELSE lower(d[k - (UuidHexLen - Len(d))])]
    IN  SubSeq(x, 1, 8) \o <<"-">> \o SubSeq(x, 9, 12) \o <<"-">> \o
        SubSeq(x, 13, 16) \o <<"-">> \o SubSeq(x, 17, 20) \o <<"-">> \o
        SubSeq(x, 21, 32)

(***************************************************************************)
(* Identifier strings the runs are started with.                           *)
(***************************************************************************)
S_empty == <<>>
S_mac == <<"A","A",":","B","B",":","C","C",":","D","D",":","E","E",":","F","F">>
S_notaddr == <<"n","o","t","-","a","n","-","a","d","d","r","e","s","s">>
S_gt01 == <<"G","T","0","1">>
S_gt01_lower == <<"g","t","0","1">>
S_gb02 == <<"G","B","0","2">>
S_uuid_lower == <<"b","9","e","a","5","2","3","3","-","3","7","e","f","-","4","d","d","6","-","8","7","a","8","-","2","a","8","7","5","e","8","2","1","c","4","6">>
S_uuid_upper == <<"B","9","E","A","5","2","3","3","-","3","7","E","F","-","4","D","D","6","-","8","7","A","8","-","2","A","8","7","5","E","8","2","1","C","4","6">>
S_uuid_nodash == <<"b","9","e","a","5","2","3","3","3","7","e","f","4","d","d","6","8","7","a","8","2","a","8","7","5","e","8","2","1","c","4","6">>
S_uuid_braces == <<"{","b","9","e","a","5","2","3","3","-","3","7","e","f","-","4","d","d","6","-","8","7","a","8","-","2","a","8","7","5","e","8","2","1","c","4","6","}">>
S_uuid_urn == <<"u","r","n",":","u","u","i","d",":","b","9","e","a","5","2","3","3","-","3","7","e","f","-","4","d","d","6","-","8","7","a","8","-","2","a","8","7","5","e","8","2","1","c","4","6">>
S_uuid_0x == <<"0","x","b","9","e","a","5","2","3","3","3","7","e","f","4","d","d","6","8","7","a","8","2","a","8","7","5","e","8","2","1","c">>
S_uuid_short == <<"b","9","e","a","5","2","3","3","-","3","7","e","f","-","4","d","d","6","-","8","7","a","8","-","2","a","8","7","5","e","8","2","1","c","4">>
S_uuid_badhex == <<"b","9","e","a","5","2","3","3","-","3","7","e","f","-","4","d","d","6","-","8","7","a","8","-","2","a","8","7","5","e","8","2","1","c","4","g">>
S_zz == <<"z","z",":","z","z",":","z","z",":","z","z",":","z","z",":","z","z">>
S_colons == <<":",":",":",":",":">>
S_seven == <<"a",":","b",":","c",":","d",":","e",":","f",":","g">>
S_punct == <<"a","-",":","b","b",":","c","c",":","d","d",":","e","e",":","f","f">>
S_dev1 == <<"1","1",":","2","2",":","3","3",":","4","4",":","5","5",":","6","6">>

\* every identifier the resolver is exercised on
DeviceInputs ==
    {NoneVal, S_empty, S_mac, S_notaddr, S_gt01, S_uuid_lower, S_uuid_upper,
     S_uuid_nodash, S_uuid_braces, S_uuid_urn, S_uuid_0x, S_uuid_short,
     S_uuid_badhex, S_zz, S_colons, S_seven, S_punct}

\* identifiers whole runs are started with
RunDevices == {S_empty, S_mac}

(***************************************************************************)
(* Advertisements a scan can receive: BLEDevice name and address, and the  *)
(* AdvertisementData.service_uuids.  A scan result refers to one by index. *)
(***************************************************************************)
POSSIBLE_SERVICE_UUIDS ==
    <<"0000ae30-0000-1000-8000-00805f9b34fb",
      "0000af30-0000-1000-8000-00805f9b34fb">>

UnrelatedUuid == "0000180f-0000-1000-8000-00805f9b34fb"

Adverts ==
    << [name |-> S_gt01, addr |-> S_dev1,
        service_uuids |-> {POSSIBLE_SERVICE_UUIDS[1]}],
       [name |-> S_gb02, addr |-> S_dev1,
        service_uuids |-> {UnrelatedUuid, POSSIBLE_SERVICE_UUIDS[2]}],
       [name |-> S_notaddr, addr |-> S_dev1,
        service_uuids |-> {UnrelatedUuid}],
       [name |-> S_gt01_lower, addr |-> S_dev1,
        service_uuids |-> {}] >>

\* Python truthiness of an Optional[str]
truthy(s) == s # NoneVal /\ s # <<>>

\* scan.matches, line 33-36
matches_first_uuid(name, adv) ==
    IF ~truthy(name)
    THEN POSSIBLE_SERVICE_UUIDS[1] \in adv.service_uuids
    ELSE adv.name = name

matches(name, adv) ==
    IF ~truthy(name)
    THEN \E k \in 1..Len(POSSIBLE_SERVICE_UUIDS) :
            POSSIBLE_SERVICE_UUIDS[k] \in adv.service_uuids
    ELSE adv.name = name

\* values of `address`
Unbound == [kind |-> "unbound", s |-> <<>>, d |-> 0]
StrAddr(s) == [kind |-> "str", s |-> s, d |-> 0]
DevAddr(a) == [kind |-> "BLEDevice", s |-> Adverts[a].addr, d |-> a]

\* get_device_address up to its return or its call of scan, lines 48-54:
\* the returned string, or Unbound when control reaches line 54
direct_address_verbatim(dev) ==
    IF truthy(dev)
    THEN IF uuid_parses(dev) THEN StrAddr(dev)
         ELSE IF count(dev, ":") = 5 /\ isalnum(replace(dev, <<":">>))
              THEN StrAddr(dev)
              ELSE Unbound
    ELSE Unbound

direct_address(dev) ==
    IF truthy(dev)
    THEN IF uuid_parses(dev) THEN StrAddr(uuid_format(dev))
         ELSE IF count(dev, ":") = 5 /\ isalnum(replace(dev, <<":">>))
              THEN StrAddr(dev)
              ELSE Unbound
    ELSE Unbound

(***************************************************************************)
(* chunkify, lines 57-59: a generator over range(0, len(data), size).      *)
(***************************************************************************)
\* data[i:j] for 0 <= i
slice(d, i, j) == SubSeq(d, i + 1, Min(j, Len(d)))

\* range(0, n, size) raises ValueError for a zero step
range_raises(size) == size = 0

\* the range still has the element i (a negative step from 0 has none)
range_has_inclusive(i, n, size) == size > 0 /\ i <= n

range_has(i, n, size) == size > 0 /\ i < n

\* the fragment yielded at range index i
chunk_at_overlap(d, i, size) == slice(d, i, i + size + 1)

chunk_at(d, i, size) == slice(d, i, i + size)

(***************************************************************************)
(* The transport and the input source.                                     *)
(***************************************************************************)
DefaultMtu == 23
ATT_OVERHEAD == 3

\* unit sizes the transport can report once connected
MtuSizes == DefaultMtu..(DefaultMtu + MaxMtuExtra)

Ev(op, what, bytes, ok) == [op |-> op, what |-> what, bytes |-> bytes, ok |-> ok]

\* what the user types or pipes, without the line terminator
Typed == {<<>>, <<" ">>, <<"h","i">>, <<"E","x","i","t">>}

lower_str(s) == [k \in 1..Len(s) |-> lower(s[k])]

\* the opaque command buffer cmds_print_img returns, by its length
buffer(n) == [k \in 1..n |-> k]

\* buffer lengths the runs use: the empty buffer, and the lengths up to
\* MaxLen that are one more than a multiple (twice or more) of the default
\* fragment size
DataLens ==
    {n \in 0..MaxLen :
        \/ n = 0
        \/ /\ n > 2 * (DefaultMtu - ATT_OVERHEAD)
           /\ n % (DefaultMtu - ATT_OVERHEAD) = 1}

\* lengths of the fixed command sequences prepare() and finish() of
\* catprinter.cmds return: one that fits every fragment size of the model
\* and one that fits none
CmdLens == {DefaultMtu - ATT_OVERHEAD, DefaultMtu + MaxMtuExtra}

\* prepare(), the preamble command sequence
prepare == {buffer(n) : n \in CmdLens}

\* finish(), the flush command sequence
finish == {buffer(n) : n \in CmdLens}

(***************************************************************************)
(* run_ble, lines 84-118, one action per stretch between suspensions.      *)
(***************************************************************************)
InitWith(devs) ==
    /\ pc = "resolve"
    /\ device \in devs
    /\ address = Unbound
    /\ scanCalls = <<>>
    /\ seen = <<>>
    /\ exc = "none"
    /\ log = <<>>
    /\ isBlueZ = FALSE
    /\ mtu_size = 0
    /\ chunk_size = 0
    /\ lines = <<>>
    /\ text = <<>>
    /\ data = <<>>
    /\ ci = 0
    /\ yielded = <<>>
    /\ reported = FALSE
    /\ piped \in BOOLEAN
    /\ nread = 0
    /\ stdin = <<>>
    /\ jobs = <<>>

Init == InitWith(RunDevices)

\* line 86 with get_device_address, lines 48-54, up to the await of scan
get_device_address ==
    /\ pc = "resolve"
    /\ LET r == direct_address(device)
       IN  IF r.kind = "str"
           THEN /\ address' = r
                /\ pc' = "connect"
                /\ UNCHANGED scanCalls
           ELSE /\ scanCalls' = Append(scanCalls, device)
                /\ pc' = "scanning"
                /\ UNCHANGED address
    /\ UNCHANGED <<device, seen, exc, log, isBlueZ, mtu_size, chunk_size,
                   lines, text, data, ci, yielded, reported, piped, nread,
                   stdin, jobs>>

scan_advert_keep_listening ==
    /\ pc = "scanning"
    /\ Len(seen) < MaxAdverts
    /\ \E a \in 1..Len(Adverts) :
         LET ok == matches(scanCalls[Len(scanCalls)], Adverts[a])
         IN  /\ seen' = Append(seen, [adv |-> a, ok |-> ok])
             /\ IF ok
                THEN address' = DevAddr(a) /\ UNCHANGED pc
                ELSE UNCHANGED <<address, pc>>
    /\ UNCHANGED <<device, scanCalls, exc, log, isBlueZ, mtu_size, chunk_size,
                   lines, text, data, ci, yielded, reported, piped, nread,
                   stdin, jobs>>

\* line 38: find_device_by_filter hands one more advertisement to matches;
\* a match ends the scan and get_device_address returns the device
scan_advert ==
    /\ pc = "scanning"
    /\ Len(seen) < MaxAdverts
    /\ \E a \in 1..Len(Adverts) :
         LET ok == matches(scanCalls[Len(scanCalls)], Adverts[a])
         IN  /\ seen' = Append(seen, [adv |-> a, ok |-> ok])
             /\ IF ok
                THEN address' = DevAddr(a) /\ pc' = "connect"
                ELSE UNCHANGED <<address, pc>>
    /\ UNCHANGED <<device, scanCalls, exc, log, isBlueZ, mtu_size, chunk_size,
                   lines, text, data, ci, yielded, reported, piped, nread,
                   stdin, jobs>>

scan_timeout_no_return ==
    /\ pc = "scanning"
    /\ reported' = TRUE
    /\ pc' = "connect"
    /\ UNCHANGED <<device, address, scanCalls, seen, exc, log, isBlueZ,
                   mtu_size, chunk_size, lines, text, data, ci, yielded,
                   piped, nread,
                   stdin, jobs>>


\* lines 38-40 and 87-89: the timeout passes without a match, scan raises
\* RuntimeError, run_ble reports it and returns
scan_timeout ==
    /\ pc = "scanning"
    /\ reported' = TRUE
    /\ pc' = "done"
    /\ UNCHANGED <<device, address, scanCalls, seen, exc, log, isBlueZ,
                   mtu_size, chunk_size, lines, text, data, ci, yielded,
                   piped, nread,
                   stdin, jobs>>

\* line 38: the scanner itself fails; the error is not a RuntimeError and
\* leaves run_ble
scan_error ==
    /\ pc = "scanning"
    /\ exc' = "BleakError"
    /\ pc' = "done"
    /\ UNCHANGED <<device, address, scanCalls, seen, log, isBlueZ, mtu_size,
                   chunk_size, lines, text, data, ci, yielded, reported,
                   piped, nread,
                   stdin, jobs>>

connect_retry ==
    /\ pc = "connect"
    /\ \/ /\ log' = Append(log, Ev("connect", "", <<>>, TRUE))
          /\ isBlueZ' \in BOOLEAN
          /\ mtu_size' \in (IF isBlueZ' THEN {DefaultMtu} ELSE MtuSizes)
          /\ pc' = "negotiate"
          /\ UNCHANGED exc
       \/ /\ log' = Append(log, Ev("connect", "", <<>>, FALSE))
          /\ pc' = "connect"
          /\ UNCHANGED <<exc, isBlueZ, mtu_size>>
    /\ UNCHANGED <<device, address, scanCalls, seen, chunk_size, lines, text,
                   data, ci, yielded, reported, piped, nread,
                   stdin, jobs>>

\* line 92: BleakClient(address).__aenter__ connects; when connect raises,
\* the with-body and __aexit__ are not entered
connect ==
    /\ pc = "connect"
    /\ \/ /\ log' = Append(log, Ev("connect", "", <<>>, TRUE))
          /\ isBlueZ' \in BOOLEAN
          /\ mtu_size' \in (IF isBlueZ' THEN {DefaultMtu} ELSE MtuSizes)
          /\ pc' = "negotiate"
          /\ UNCHANGED exc
       \/ /\ log' = Append(log, Ev("connect", "", <<>>, FALSE))
          /\ exc' = "BleakError"
          /\ pc' = "done"
          /\ UNCHANGED <<isBlueZ, mtu_size>>
    /\ UNCHANGED <<device, address, scanCalls, seen, chunk_size, lines, text,
                   data, ci, yielded, reported, piped, nread,
                   stdin, jobs>>

negotiate_stale ==
    /\ pc = "negotiate"
    /\ \/ /\ isBlueZ
          /\ log' = Append(log, Ev("acquire_mtu", "", <<>>, TRUE))
          /\ mtu_size' \in MtuSizes
          /\ chunk_size' = mtu_size - ATT_OVERHEAD
          /\ pc' = "prepare"
          /\ UNCHANGED exc
       \/ /\ isBlueZ
          /\ log' = Append(log, Ev("acquire_mtu", "", <<>>, FALSE))
          /\ exc' = "BleakError"
          /\ pc' = "exit"
          /\ UNCHANGED <<mtu_size, chunk_size>>
       \/ /\ ~isBlueZ
          /\ chunk_size' = mtu_size - ATT_OVERHEAD
          /\ pc' = "prepare"
          /\ UNCHANGED <<log, mtu_size, exc>>
    /\ UNCHANGED <<device, address, scanCalls, seen, isBlueZ, lines, text,
                   data, ci, yielded, reported, piped, nread,
                   stdin, jobs>>


negotiate_no_headroom ==
    /\ pc = "negotiate"
    /\ \/ /\ isBlueZ
          /\ log' = Append(log, Ev("acquire_mtu", "", <<>>, TRUE))
          /\ mtu_size' \in MtuSizes
          /\ chunk_size' = mtu_size' - DefaultMtu
          /\ pc' = "prepare"
          /\ UNCHANGED exc
       \/ /\ isBlueZ
          /\ log' = Append(log, Ev("acquire_mtu", "", <<>>, FALSE))
          /\ exc' = "BleakError"
          /\ pc' = "exit"
          /\ UNCHANGED <<mtu_size, chunk_size>>
       \/ /\ ~isBlueZ
          /\ chunk_size' = mtu_size - DefaultMtu
          /\ pc' = "prepare"
          /\ UNCHANGED <<log, mtu_size, exc>>
    /\ UNCHANGED <<device, address, scanCalls, seen, isBlueZ, lines, text,
                   data, ci, yielded, reported, piped, nread,
                   stdin, jobs>>

\* lines 93-97: the MTU is acquired on the BlueZ backend only, then
\* chunk_size is bound
negotiate ==
    /\ pc = "negotiate"
    /\ \/ /\ isBlueZ
          /\ log' = Append(log, Ev("acquire_mtu", "", <<>>, TRUE))
          /\ mtu_size' \in MtuSizes
          /\ chunk_size' = mtu_size' - ATT_OVERHEAD
          /\ pc' = "prepare"
          /\ UNCHANGED exc
       \/ /\ isBlueZ
          /\ log' = Append(log, Ev("acquire_mtu", "", <<>>, FALSE))
          /\ exc' = "BleakError"
          /\ pc' = "exit"
          /\ UNCHANGED <<mtu_size, chunk_size>>
       \/ /\ ~isBlueZ
          /\ chunk_size' = mtu_size - ATT_OVERHEAD
          /\ pc' = "prepare"
          /\ UNCHANGED <<log, mtu_size, exc>>
    /\ UNCHANGED <<device, address, scanCalls, seen, isBlueZ, lines, text,
                   data, ci, yielded, reported, piped, nread,
                   stdin, jobs>>

write_prepare_unchecked ==
    /\ pc = "prepare"
    /\ \E bytes \in prepare :
       \/ /\ log' = Append(log, Ev("write", "prepare", bytes, TRUE))
          /\ pc' = "input"
          /\ UNCHANGED exc
       \/ /\ log' = Append(log, Ev("write", "prepare", bytes, FALSE))
          /\ pc' = "input"
          /\ UNCHANGED exc
    /\ UNCHANGED <<device, address, scanCalls, seen, isBlueZ, mtu_size,
                   chunk_size, lines, text, data, ci, yielded, reported,
                   piped, nread,
                   stdin, jobs>>


\* line 99
write_prepare ==
    /\ pc = "prepare"
    /\ \E bytes \in prepare :
       \/ /\ log' = Append(log, Ev("write", "prepare", bytes, TRUE))
          /\ pc' = "input"
          /\ UNCHANGED exc
       \/ /\ log' = Append(log, Ev("write", "prepare", bytes, FALSE))
          /\ exc' = "BleakError"
          /\ pc' = "exit"
    /\ UNCHANGED <<device, address, scanCalls, seen, isBlueZ, mtu_size,
                   chunk_size, lines, text, data, ci, yielded, reported,
                   piped, nread,
                   stdin, jobs>>

next_line_no_skip ==
    /\ pc = "input"
    /\ \/ \* a raw line is read
          /\ nread < MaxLines
          /\ nread' = nread + 1
          /\ \E raw \in Typed :
             /\ stdin' = Append(stdin, raw)
             /\ IF piped
                THEN LET line == rstrip(raw \o <<"\n">>, {"\n"})
                     IN  /\ lines' = Append(lines, line)
                         /\ text' = line
                         /\ pc' = "render"
                ELSE LET line == strip(raw, {" ", "\n"})
                     IN  IF line = <<>>
                         THEN UNCHANGED <<lines, text, pc>>
                         ELSE IF lower_str(line) \in {<<"e","x","i","t">>,
                                                      <<"q","u","i","t">>}
                         THEN /\ pc' = "finish"
                              /\ UNCHANGED <<lines, text>>
                         ELSE /\ lines' = Append(lines, line)
                              /\ text' = line
                              /\ pc' = "render"
       \/ \* end of input
          /\ pc' = "finish"
          /\ UNCHANGED <<lines, text, nread, stdin>>
    /\ UNCHANGED <<device, address, scanCalls, seen, exc, log, isBlueZ,
                   mtu_size, chunk_size, data, ci, yielded, reported, piped,
                   jobs>>

\* lines 101-103 with get_input_lines, lines 62-79: the loop asks the
\* generator for the next line
next_line ==
    /\ pc = "input"
    /\ \/ \* a raw line is read
          /\ nread < MaxLines
          /\ nread' = nread + 1
          /\ \E raw \in Typed :
             /\ stdin' = Append(stdin, raw)
             /\ IF piped
                THEN LET line == rstrip(raw \o <<"\n">>, {"\n"})
                     IN  /\ lines' = Append(lines, line)
                         /\ text' = line
                         /\ pc' = IF line # <<>> THEN "render" ELSE "input"
                ELSE LET line == strip(raw, {" ", "\n"})
                     IN  IF line = <<>>
                         THEN UNCHANGED <<lines, text, pc>>
                         ELSE IF lower_str(line) \in {<<"e","x","i","t">>,
                                                      <<"q","u","i","t">>}
                         THEN /\ pc' = "finish"
                              /\ UNCHANGED <<lines, text>>
                         ELSE /\ lines' = Append(lines, line)
                              /\ text' = line
                              /\ pc' = "render"
       \/ \* end of input
          /\ pc' = "finish"
          /\ UNCHANGED <<lines, text, nread, stdin>>
    /\ UNCHANGED <<device, address, scanCalls, seen, exc, log, isBlueZ,
                   mtu_size, chunk_size, data, ci, yielded, reported, piped,
                   jobs>>

render_unreleased ==
    /\ pc = "render"
    /\ \/ /\ \E n \in DataLens :
               /\ data' = buffer(n)
               /\ jobs' = Append(jobs, [text |-> text, len |-> n])
          /\ ci' = 0
          /\ yielded' = <<>>
          /\ pc' = "stream"
          /\ UNCHANGED exc
       \/ /\ exc' = "RuntimeError"
          /\ pc' = "done"
          /\ UNCHANGED <<data, ci, yielded, jobs>>
    /\ UNCHANGED <<device, address, scanCalls, seen, log, isBlueZ, mtu_size,
                   chunk_size, lines, text, reported, piped, nread,
                   stdin>>


render_isolated ==
    /\ pc = "render"
    /\ \/ /\ \E n \in DataLens :
               /\ data' = buffer(n)
               /\ jobs' = Append(jobs, [text |-> text, len |-> n])
          /\ ci' = 0
          /\ yielded' = <<>>
          /\ pc' = "stream"
          /\ UNCHANGED exc
       \/ /\ exc' = "RuntimeError"
          /\ pc' = "input"
          /\ UNCHANGED <<data, ci, yielded, jobs>>
    /\ UNCHANGED <<device, address, scanCalls, seen, log, isBlueZ, mtu_size,
                   chunk_size, lines, text, reported, piped, nread,
                   stdin>>

\* lines 105-112: render, encode, and create the chunkify generator
render ==
    /\ pc = "render"
    /\ \/ /\ \E n \in DataLens :
               /\ data' = buffer(n)
               /\ jobs' = Append(jobs, [text |-> text, len |-> n])
          /\ ci' = 0
          /\ yielded' = <<>>
          /\ pc' = "stream"
          /\ UNCHANGED exc
       \/ /\ exc' = "RuntimeError"
          /\ pc' = "exit"
          /\ UNCHANGED <<data, ci, yielded, jobs>>
    /\ UNCHANGED <<device, address, scanCalls, seen, log, isBlueZ, mtu_size,
                   chunk_size, lines, text, reported, piped, nread,
                   stdin>>

write_chunk_swallow ==
    /\ pc = "stream"
    /\ IF range_raises(chunk_size)
       THEN /\ exc' = "ValueError"
            /\ pc' = "exit"
            /\ UNCHANGED <<log, ci, yielded>>
       ELSE IF range_has(ci, Len(data), chunk_size)
       THEN LET chunk == chunk_at(data, ci, chunk_size)
            IN  /\ yielded' = Append(yielded, chunk)
                /\ ci' = ci + chunk_size
                /\ \/ /\ log' = Append(log, Ev("write", "chunk", chunk, TRUE))
                      /\ pc' = "sleep"
                      /\ UNCHANGED exc
                   \/ /\ log' = Append(log, Ev("write", "chunk", chunk, FALSE))
                      /\ pc' = "sleep"
                      /\ UNCHANGED exc
       ELSE /\ pc' = "input"
            /\ UNCHANGED <<log, ci, yielded, exc>>
    /\ UNCHANGED <<device, address, scanCalls, seen, isBlueZ, mtu_size,
                   chunk_size, lines, text, data, reported, piped, nread,
                   stdin, jobs>>

write_chunk_unpaced ==
    /\ pc = "stream"
    /\ IF range_raises(chunk_size)
       THEN /\ exc' = "ValueError"
            /\ pc' = "exit"
            /\ UNCHANGED <<log, ci, yielded>>
       ELSE IF range_has(ci, Len(data), chunk_size)
       THEN LET chunk == chunk_at(data, ci, chunk_size)
            IN  /\ yielded' = Append(yielded, chunk)
                /\ ci' = ci + chunk_size
                /\ \/ /\ log' = Append(log, Ev("write", "chunk", chunk, TRUE))
                      /\ pc' = "stream"
                      /\ UNCHANGED exc
                   \/ /\ log' = Append(log, Ev("write", "chunk", chunk, FALSE))
                      /\ exc' = "BleakError"
                      /\ pc' = "exit"
       ELSE /\ pc' = "input"
            /\ UNCHANGED <<log, ci, yielded, exc>>
    /\ UNCHANGED <<device, address, scanCalls, seen, isBlueZ, mtu_size,
                   chunk_size, lines, text, data, reported, piped, nread,
                   stdin, jobs>>

\* lines 112-113: the next fragment is taken from the generator and written
write_chunk ==
    /\ pc = "stream"
    /\ IF range_raises(chunk_size)
       THEN /\ exc' = "ValueError"
            /\ pc' = "exit"
            /\ UNCHANGED <<log, ci, yielded>>
       ELSE IF range_has(ci, Len(data), chunk_size)
       THEN LET chunk == chunk_at(data, ci, chunk_size)
            IN  /\ yielded' = Append(yielded, chunk)
                /\ ci' = ci + chunk_size
                /\ \/ /\ log' = Append(log, Ev("write", "chunk", chunk, TRUE))
                      /\ pc' = "sleep"
                      /\ UNCHANGED exc
                   \/ /\ log' = Append(log, Ev("write", "chunk", chunk, FALSE))
                      /\ exc' = "BleakError"
                      /\ pc' = "exit"
       ELSE /\ pc' = "input"
            /\ UNCHANGED <<log, ci, yielded, exc>>
    /\ UNCHANGED <<device, address, scanCalls, seen, isBlueZ, mtu_size,
                   chunk_size, lines, text, data, reported, piped, nread,
                   stdin, jobs>>

sleep_hang ==
    /\ pc = "sleep"
    /\ UNCHANGED vars

\* line 114
sleep ==
    /\ pc = "sleep"
    /\ log' = Append(log, Ev("sleep", "", <<>>, TRUE))
    /\ pc' = "stream"
    /\ UNCHANGED <<device, address, scanCalls, seen, exc, isBlueZ, mtu_size,
                   chunk_size, lines, text, data, ci, yielded, reported,
                   piped, nread,
                   stdin, jobs>>

write_finish_if_printed ==
    /\ pc = "finish"
    /\ \E bytes \in finish :
       \/ /\ lines # <<>>
          /\ log' = Append(log, Ev("write", "finish", bytes, TRUE))
          /\ UNCHANGED exc
       \/ /\ lines = <<>>
          /\ UNCHANGED <<log, exc>>
       \/ /\ log' = Append(log, Ev("write", "finish", bytes, FALSE))
          /\ exc' = "BleakError"
    /\ pc' = "exit"
    /\ UNCHANGED <<device, address, scanCalls, seen, isBlueZ, mtu_size,
                   chunk_size, lines, text, data, ci, yielded, reported,
                   piped, nread,
                   stdin, jobs>>


write_finish_in_loop ==
    /\ pc = "finish"
    /\ \E bytes \in finish :
       \/ /\ log' = Append(log, Ev("write", "finish", bytes, TRUE))
          /\ UNCHANGED exc
          /\ pc' = "input"
       \/ /\ log' = Append(log, Ev("write", "finish", bytes, FALSE))
          /\ exc' = "BleakError"
          /\ pc' = "exit"
    /\ UNCHANGED <<device, address, scanCalls, seen, isBlueZ, mtu_size,
                   chunk_size, lines, text, data, ci, yielded, reported,
                   piped, nread,
                   stdin, jobs>>

\* line 116
write_finish ==
    /\ pc = "finish"
    /\ \E bytes \in finish :
       \/ /\ log' = Append(log, Ev("write", "finish", bytes, TRUE))
          /\ UNCHANGED exc
       \/ /\ log' = Append(log, Ev("write", "finish", bytes, FALSE))
          /\ exc' = "BleakError"
    /\ pc' = "exit"
    /\ UNCHANGED <<device, address, scanCalls, seen, isBlueZ, mtu_size,
                   chunk_size, lines, text, data, ci, yielded, reported,
                   piped, nread,
                   stdin, jobs>>

\* line 92: BleakClient.__aexit__ disconnects when the with-body is left,
\* normally or by an exception
disconnect ==
    /\ pc = "exit"
    /\ log' = Append(log, Ev("disconnect", "", <<>>, TRUE))
    /\ pc' = "done"
    /\ UNCHANGED <<device, address, scanCalls, seen, exc, isBlueZ, mtu_size,
                   chunk_size, lines, text, data, ci, yielded, reported,
                   piped, nread,
                   stdin, jobs>>

Next ==
    \/ get_device_address
    \/ scan_advert
    \/ scan_timeout
    \/ scan_error
    \/ connect
    \/ negotiate
    \/ write_prepare
    \/ next_line
    \/ render
    \/ write_chunk
    \/ sleep
    \/ write_finish
    \/ disconnect

Spec == Init /\ [][Next]_vars

\* run_ble is one sequential task: whatever it awaits (scan, connect,
\* negotiation, a write, the pacing sleep, a line of input) eventually
\* returns or raises, so the step the task is at is eventually taken
SpecLive == Init /\ [][Next]_vars /\ WF_vars(Next)

(***************************************************************************)
(* Address resolution and scanning on their own, over every identifier.    *)
(***************************************************************************)
InitResolve == InitWith(DeviceInputs)

NextResolve ==
    \/ get_device_address
    \/ scan_advert
    \/ scan_timeout
    \/ scan_error

SpecResolve == InitResolve /\ [][NextResolve]_vars

(***************************************************************************)
(* chunkify on its own: a consumer draining the generator, over every      *)
(* buffer of at most MaxBuf bytes and every size from -1 to MaxSize.       *)
(***************************************************************************)
Bytes == {0, 1}

Buffers == UNION {[1..n -> Bytes] : n \in 0..MaxBuf}

InitChunk ==
    /\ pc = "chunkify"
    /\ data \in Buffers
    /\ chunk_size \in (0 - 1)..MaxSize
    /\ ci = 0
    /\ yielded = <<>>
    /\ exc = "none"
    /\ device = NoneVal
    /\ address = Unbound
    /\ scanCalls = <<>>
    /\ seen = <<>>
    /\ log = <<>>
    /\ isBlueZ = FALSE
    /\ mtu_size = 0
    /\ lines = <<>>
    /\ text = <<>>
    /\ reported = FALSE
    /\ piped = FALSE
    /\ nread = 0
    /\ stdin = <<>>
    /\ jobs = <<>>

\* lines 57-59: one next() on the generator
chunkify_next ==
    /\ pc = "chunkify"
    /\ IF range_raises(chunk_size)
       THEN /\ exc' = "ValueError"
            /\ pc' = "raised"
            /\ UNCHANGED <<ci, yielded>>
       ELSE IF range_has(ci, Len(data), chunk_size)
       THEN /\ yielded' = Append(yielded, chunk_at(data, ci, chunk_size))
            /\ ci' = ci + chunk_size
            /\ UNCHANGED <<pc, exc>>
       ELSE /\ pc' = "returned"
            /\ UNCHANGED <<ci, yielded, exc>>
    /\ UNCHANGED <<device, address, scanCalls, seen, log, isBlueZ, mtu_size,
                   chunk_size, lines, text, data, reported, piped, nread,
                   stdin, jobs>>

NextChunk == chunkify_next

SpecChunk == InitChunk /\ [][NextChunk]_vars

(***************************************************************************)
(* Properties.                                                             *)
(***************************************************************************)
IsWrite(e, what) == e.op = "write" /\ e.what = what

Occurrences(op, what) ==
    Cardinality({k \in 1..Len(log) : log[k].op = op /\ log[k].what = what})

FlushCount == Occurrences("write", "finish")
PrepareCount == Occurrences("write", "prepare")
ChunkCount == Occurrences("write", "chunk")
CloseCount == Occurrences("disconnect", "")

Connected == \E k \in 1..Len(log) : log[k].op = "connect" /\ log[k].ok
ConnectFailed == \E k \in 1..Len(log) : log[k].op = "connect" /\ ~log[k].ok
NegotiationFailed ==
    \E k \in 1..Len(log) : log[k].op = "acquire_mtu" /\ ~log[k].ok

NoFragmentAfterFlush ==
    \A i \in 1..Len(log) :
        IsWrite(log[i], "finish") =>
            \A j \in i..Len(log) : ~IsWrite(log[j], "chunk")

\* C1 as stated: every run whose connection succeeded has written the flush
\* command exactly once by the time it ends, with no fragment after it.
C1_AsStated ==
    (pc = "done" /\ Connected) => (FlushCount = 1 /\ NoFragmentAfterFlush)

\* C1 amended: the flush command is never written twice and no fragment is
\* ever written after it; a run that connected and ends without an exception
\* has written it exactly once, also when no PrintJob was produced.
C1_FlushOnce ==
    /\ FlushCount <= 1
    /\ NoFragmentAfterFlush
    /\ (pc = "done" /\ Connected /\ exc = "none") => FlushCount = 1

C1_Witness ==
    pc = "done" /\ exc = "none" /\ FlushCount = 1 /\ ChunkCount >= 2

\* C2 as stated: every session has written the preamble exactly once by the
\* time it ends, and the preamble write returned before any fragment write.
PreambleBeforeFragments ==
    \A j \in 1..Len(log) :
        IsWrite(log[j], "chunk") =>
            \E i \in 1..(j - 1) : IsWrite(log[i], "prepare") /\ log[i].ok

ChunkIndexes == {k \in 1..Len(log) : IsWrite(log[k], "chunk")}

\* buffer(n) holds k at position k, so a fragment's first byte is its offset
\* plus one
OffsetOf(e) == e.bytes[1] - 1

LastOfBuffer(k) ==
    \A j \in (k + 1)..Len(log) :
        (/\ IsWrite(log[j], "chunk")
         /\ \A m \in (k + 1)..(j - 1) : ~IsWrite(log[m], "chunk"))
            => OffsetOf(log[j]) = 0

C3_FragmentSize ==
    /\ (\E k \in 1..Len(log) : log[k].op = "write")
          => chunk_size = mtu_size - 3
    /\ \A k \in ChunkIndexes :
          /\ Len(log[k].bytes) >= 1
          /\ Len(log[k].bytes) <= mtu_size - 3
          /\ OffsetOf(log[k]) % (mtu_size - 3) = 0
          /\ Len(log[k].bytes) < mtu_size - 3 => LastOfBuffer(k)
    /\ isBlueZ =>
          \A j \in 1..Len(log) :
              log[j].op = "write" =>
                  \E h, i \in 1..(j - 1) :
                      /\ h < i
                      /\ log[h].op = "connect" /\ log[h].ok
                      /\ log[i].op = "acquire_mtu" /\ log[i].ok

C3_Witness ==
    /\ isBlueZ
    /\ mtu_size = DefaultMtu + 1
    /\ pc = "done"
    /\ \E j, k \in ChunkIndexes :
          j < k /\ OffsetOf(log[j]) = 0 /\ OffsetOf(log[k]) = mtu_size - 3

RECURSIVE Concat(_)
Concat(fs) == IF fs = <<>> THEN <<>> ELSE Head(fs) \o Concat(Tail(fs))

RECURSIVE TotalLen(_, _)
\* summed length of the first k fragments
TotalLen(fs, k) == IF k = 0 THEN 0 ELSE TotalLen(fs, k - 1) + Len(fs[k])

Ceil(n, f) == (n + f - 1) \div f

\* C4: for a size F > 0 the concatenation of the fragments of a drained
\* chunkify(B, F) is B, there are ceil(len(B)/F) of them, and they are
\* consecutive slices of B (each starts where the one before ended).
C4_Partition ==
    (pc = "returned" /\ chunk_size > 0) =>
        /\ Concat(yielded) = data
        /\ Len(yielded) = Ceil(Len(data), chunk_size)
        /\ \A k \in 1..Len(yielded) :
              yielded[k] = SubSeq(data, TotalLen(yielded, k - 1) + 1,
                                  TotalLen(yielded, k))

C4_Witness ==
    /\ pc = "returned"
    /\ chunk_size = 2
    /\ Len(data) = 3
    /\ Len(yielded) = 2

\* C5: for a size F > 0 no fragment of a drained chunkify(B, F) is longer
\* than F; when len(B) mod F is not 0 the last fragment, and only it, is
\* shorter than F; when it is 0 every fragment is exactly F long.
C5_Lengths ==
    (pc = "returned" /\ chunk_size > 0) =>
        /\ \A k \in 1..Len(yielded) : Len(yielded[k]) <= chunk_size
        /\ Len(data) % chunk_size # 0 =>
              {k \in 1..Len(yielded) : Len(yielded[k]) < chunk_size}
                  = {Len(yielded)}
        /\ Len(data) % chunk_size = 0 =>
              \A k \in 1..Len(yielded) : Len(yielded[k]) = chunk_size

C5_Witness ==
    /\ pc = "returned"
    /\ chunk_size = 2
    /\ Len(data) = 4
    /\ Len(yielded) = 2

\* C6 as stated: every run that attempted a connection, whether the connect
\* failed or the session ended well or badly, has closed the transport
\* exactly once when it ends.
C6_AsStated ==
    (pc = "done" /\ (Connected \/ ConnectFailed)) => CloseCount = 1

\* C6 amended: the transport is never closed twice; a run whose connect
\* succeeded has closed it exactly once when it ends, whether the flush
\* write succeeded or the flush or an earlier step raised; a run whose
\* connect failed, or that found no device, never closes it.
C6_CloseOnce ==
    /\ CloseCount <= 1
    /\ ~Connected => CloseCount = 0
    /\ (pc = "done" /\ Connected) => CloseCount = 1

C6_Witness ==
    /\ pc = "done"
    /\ CloseCount = 1
    /\ exc = "BleakError"
    /\ \E k \in 1..Len(log) : IsWrite(log[k], "finish") /\ ~log[k].ok

\* 8-4-4-4-12 hexadecimal digits separated by dashes, in either letter case
IsDashedUuid(s) ==
    /\ Len(s) = 36
    /\ \A k \in 1..36 :
          IF k \in {9, 14, 19, 24} THEN s[k] = "-" ELSE s[k] \in HexDigits

\* the same with lowercase digits only
IsCanonicalLower(s) ==
    /\ IsDashedUuid(s)
    /\ \A k \in 1..36 : s[k] \notin UpperHex

\* six groups of two hexadecimal digits separated by colons
IsMacForm(s) ==
    /\ Len(s) = 17
    /\ \A k \in 1..17 :
          IF k % 3 = 0 THEN s[k] = ":" ELSE s[k] \in HexDigits

Resolved == pc # "resolve"

\* C7 as stated: a dashed 128-bit identifier or a six-group colon-separated
\* hexadecimal address is returned character for character, without a scan.
C7_AsStated ==
    (Resolved /\ (IsDashedUuid(device) \/ IsMacForm(device))) =>
        (address = StrAddr(device) /\ scanCalls = <<>>)

\* C7 amended: an identifier that parses as a 128-bit identifier is returned
\* in canonical form (32 lowercase hexadecimal digits grouped 8-4-4-4-12 by
\* dashes; for a dashed input that is the input in lowercase, hence the input
\* itself only when it has no uppercase digit); a six-group colon-separated
\* hexadecimal address is returned character for character; scan is invoked
\* in neither case.
C7_Canonical ==
    Resolved =>
        /\ uuid_parses(device) =>
              /\ address.kind = "str"
              /\ IsCanonicalLower(address.s)
              /\ scanCalls = <<>>
        /\ IsDashedUuid(device) => address = StrAddr(lower_str(device))
        /\ IsMacForm(device) =>
              (address = StrAddr(device) /\ scanCalls = <<>>)

C7_Witness ==
    /\ Resolved
    /\ device = S_uuid_upper
    /\ address = StrAddr(S_uuid_lower)
    /\ scanCalls = <<>>

\* C8: an identifier that is neither a 128-bit identifier (in any form
\* uuid.UUID accepts) nor a six-group colon-separated hexadecimal address,
\* the empty and the omitted one included, is handed to scan exactly once,
\* unchanged, as the name filter.
C8_ScanOtherwise ==
    (Resolved /\ ~uuid_parses(device) /\ ~IsMacForm(device)) =>
        scanCalls = <<device>>

\* C9: a run in which the device was not found has issued no operation on
\* the transport (no connect, no negotiation, no write) and is over.
C9_NoConnectAfterNotFound ==
    reported => (log = <<>> /\ pc = "done" /\ address = Unbound)

C9_Witness ==
    /\ reported
    /\ pc = "done"
    /\ Len(seen) = MaxAdverts
    /\ \A k \in 1..Len(seen) : ~seen[k].ok

\* C10: matches accepts an advertisement exactly when, with a name filter,
\* the advertised name equals the filter, and, with the filter absent or
\* empty, the advertised service identifiers include 0000ae30-... or
\* 0000af30-...
Allowlisted ==
    {"0000ae30-0000-1000-8000-00805f9b34fb",
     "0000af30-0000-1000-8000-00805f9b34fb"}

Accepts(filter, adv) ==
    IF filter = NoneVal \/ Len(filter) = 0
    THEN adv.service_uuids \cap Allowlisted # {}
    ELSE adv.name = filter

C10_MatchPolicy ==
    \A k \in 1..Len(seen) :
        seen[k].ok <=> Accepts(scanCalls[1], Adverts[seen[k].adv])

C10_Witness ==
    /\ Len(seen) = 2
    /\ scanCalls = <<S_empty>>
    /\ ~seen[1].ok
    /\ seen[2].ok
    /\ "0000ae30-0000-1000-8000-00805f9b34fb"
           \notin Adverts[seen[2].adv].service_uuids

\* C11: the advertisements scan has examined are, in arrival order, zero or
\* more that the match policy rejects followed by at most one it accepts;
\* the accepted one is what scan returns and nothing is examined after it;
\* a scan that times out has accepted nothing, reports the device as not
\* found and ends the run, and scan is never started a second time.
C11_FirstMatchWins ==
    /\ Len(scanCalls) <= 1
    /\ \A k \in 1..Len(seen) :
          Accepts(scanCalls[1], Adverts[seen[k].adv]) =>
              /\ k = Len(seen)
              /\ address = DevAddr(seen[k].adv)
              /\ pc # "scanning"
    /\ address.kind = "BLEDevice" =>
          (Len(seen) > 0 /\ address.d = seen[Len(seen)].adv)
    /\ reported =>
          /\ \A k \in 1..Len(seen) :
                ~Accepts(scanCalls[1], Adverts[seen[k].adv])
          /\ address = Unbound
          /\ pc = "done"

C11_Witness ==
    /\ scanCalls = <<S_gt01>>
    /\ Len(seen) = 2
    /\ Adverts[seen[1].adv].name = S_gt01_lower
    /\ Adverts[seen[2].adv].name = S_gt01
    /\ address = DevAddr(seen[2].adv)
    /\ pc = "connect"

\* C12: once a fragment write has failed, it is the last write of the run
\* (no further fragment, no flush, no second attempt), the error leaves
\* run_ble, and the run ends with the transport closed exactly once.
FailedFragments == {k \in 1..Len(log) : IsWrite(log[k], "chunk") /\ ~log[k].ok}

C12_FragmentFailureAborts ==
    \A k \in FailedFragments :
        /\ \A j \in (k + 1)..Len(log) : log[j].op = "disconnect"
        /\ exc = "BleakError"
        /\ pc \in {"exit", "done"}
        /\ pc = "done" => CloseCount = 1

C12_Witness ==
    /\ pc = "done"
    /\ Len(jobs) = 1
    /\ Len(lines) = 1
    /\ \E k \in FailedFragments :
          /\ OffsetOf(log[k]) > 0
          /\ log[Len(log)].op = "disconnect"
          /\ k = Len(log) - 1

\* One PrintJob per input line: what each mode makes of the raw lines.
Whitespace == {" ", "\n"}

IsBlank(raw) == strip(raw, Whitespace) = <<>>

IsNotBlank(raw) == ~IsBlank(raw)

IsNotEmpty(raw) == raw # <<>>

ExitWords == {<<"e","x","i","t">>, <<"q","u","i","t">>}

RECURSIVE UpToExit(_)
\* the stripped typed lines before the first exit or quit keyword
UpToExit(raws) ==
    IF raws = <<>> THEN <<>>
    ELSE LET line == strip(Head(raws), Whitespace)
         IN  IF lower_str(line) \in ExitWords THEN <<>>
             ELSE <<line>> \o UpToExit(Tail(raws))

\* the texts that get a PrintJob: piped, every line that is not empty;
\* interactive, every stripped line before the keyword that is not empty
PrintedTexts ==
    IF piped THEN SelectSeq(stdin, IsNotEmpty)
    ELSE SelectSeq(UpToExit(stdin), IsNotEmpty)

JobTexts == [k \in 1..Len(jobs) |-> jobs[k].text]

IsFragmentWrite(e) == IsWrite(e, "chunk")

\* the bytes of the fragment writes, in the order they were issued
FragmentsWritten ==
    LET ws == SelectSeq(log, IsFragmentWrite)
    IN  [k \in 1..Len(ws) |-> ws[k].bytes]

\* the fragments of an n-byte command buffer cut at size f
FragmentsOf(n, f) ==
    [k \in 1..Ceil(n, f) |->
        SubSeq(buffer(n), (k - 1) * f + 1, Min(k * f, n))]

RECURSIVE FragmentsOfJobs(_, _)
\* every fragment of the first job, then every fragment of the next, ...
FragmentsOfJobs(js, f) ==
    IF js = <<>> THEN <<>>
    ELSE FragmentsOf(Head(js).len, f) \o FragmentsOfJobs(Tail(js), f)

Writes == SelectSeq(log, LAMBDA e : e.op = "write")

\* C13 as stated: a run that connected has, when it ends, produced exactly
\* one PrintJob per non-blank input line, in input order, and none for a
\* blank line, and has written the jobs' fragments job after job.
C13_AsStated ==
    (pc = "done" /\ Connected) =>
        /\ JobTexts = SelectSeq(stdin, IsNotBlank)
        /\ FragmentsWritten = FragmentsOfJobs(jobs, mtu_size - 3)

\* C13 amended: in a run that connected and ends without an exception, the
\* PrintJobs are, in input order, one per input line that is not empty:
\* piped, every line without its newline (a line of blanks is printed);
\* interactive, every line stripped of surrounding blanks, up to the first
\* exit or quit keyword.  Empty lines get no job.  The writes of the run
\* are the preamble, then every fragment of the first job, then every
\* fragment of the next, and so on, then the flush.
C13_JobsPerLine ==
    (pc = "done" /\ Connected /\ exc = "none") =>
        /\ JobTexts = PrintedTexts
        /\ FragmentsWritten = FragmentsOfJobs(jobs, mtu_size - 3)
        /\ Len(Writes) = Len(FragmentsWritten) + 2
        /\ IsWrite(Writes[1], "prepare")
        /\ IsWrite(Writes[Len(Writes)], "finish")

C13_Witness ==
    /\ pc = "done"
    /\ exc = "none"
    /\ piped
    /\ stdin = << <<"h","i">>, <<" ">> >>
    /\ Len(jobs) = 2
    /\ jobs[1].len > 0
    /\ jobs[2].len > 0

\* C14: consecutive fragment writes either continue the buffer (the later
\* one starts where the earlier one ended) or start the next buffer at
\* offset 0, so offsets only increase within a job; and between a fragment
\* write and any later write (a fragment or the flush) there is a pacing
\* sleep, issued directly after the fragment write returned.  Every entry
\* of the log is a call that has returned, so no two writes overlap.
FragmentIndexes == {k \in 1..Len(log) : IsFragmentWrite(log[k])}

NextFragment(k) ==
    {j \in (k + 1)..Len(log) :
        /\ IsFragmentWrite(log[j])
        /\ \A m \in (k + 1)..(j - 1) : ~IsFragmentWrite(log[m])}

C14_OrderedAndPaced ==
    \A k \in FragmentIndexes :
        /\ \A j \in NextFragment(k) :
              \/ OffsetOf(log[j]) = OffsetOf(log[k]) + Len(log[k].bytes)
              \/ OffsetOf(log[j]) = 0
        /\ \A j \in (k + 1)..Len(log) :
              log[j].op = "write" => log[k + 1].op = "sleep"
        /\ (log[k].ok /\ pc # "sleep") =>
              (k < Len(log) /\ log[k + 1].op = "sleep")

C14_Witness ==
    /\ pc = "exit"
    /\ Len(log) >= 4
    /\ IsWrite(log[Len(log)], "finish")
    /\ log[Len(log) - 1].op = "sleep"
    /\ IsFragmentWrite(log[Len(log) - 2])
    /\ OffsetOf(log[Len(log) - 2]) = 2 * (mtu_size - 3)

\* C15: every write of a session, the preamble and the flush included,
\* carries at most the fragment size (unit size - 3) bytes.
C15_WritesWithinFragmentSize ==
    \A k \in 1..Len(log) :
        log[k].op = "write" => Len(log[k].bytes) <= mtu_size - 3

\* C16: when rendering has failed (the RuntimeError of text_to_image), the
\* run is leaving or has left the session: the failed line is the last one
\* taken from the input, it has no PrintJob and no fragment (the fragments
\* written are exactly those of the jobs before it), no flush is written,
\* the error is the one leaving run_ble, and the run ends with the
\* transport closed.
C16_RenderFailureFatal ==
    exc = "RuntimeError" =>
        /\ pc \in {"exit", "done"}
        /\ Len(lines) > 0
        /\ text = lines[Len(lines)]
        /\ Len(jobs) = Len(SelectSeq(lines, IsNotEmpty)) - 1
        /\ FragmentsWritten = FragmentsOfJobs(jobs, mtu_size - 3)
        /\ FlushCount = 0
        /\ pc = "done" => (CloseCount = 1 /\ log[Len(log)].op = "disconnect")

C16_Witness ==
    /\ exc = "RuntimeError"
    /\ pc = "done"
    /\ Len(lines) = 2
    /\ Len(jobs) = 1
    /\ jobs[1].len > 0
    /\ log[Len(log) - 1].op = "sleep"

\* the session phase the run is in, read off the position in run_ble: the
\* with-body is left with an exception pending (Errored) or without one
Phase ==
    CASE pc \in {"resolve", "scanning"} -> "Disconnected"
      [] pc = "connect" -> "Connecting"
      [] pc = "negotiate" -> "Negotiating"
      [] pc = "prepare" -> "Ready"
      [] pc \in {"input", "render", "stream", "sleep"} -> "Streaming"
      [] pc = "finish" -> "Flushing"
      [] pc = "exit" -> IF exc = "none" THEN "Flushing" ELSE "Errored"
      [] pc = "done" -> IF exc = "none" THEN "Closed" ELSE "Errored"

Rank(p) ==
    CASE p = "Disconnected" -> 0
      [] p = "Connecting" -> 1
      [] p = "Negotiating" -> 2
      [] p = "Ready" -> 3
      [] p = "Streaming" -> 4
      [] p = "Flushing" -> 5
      [] p = "Closed" -> 6
      [] p = "Errored" -> 6

Terminal == {"Closed", "Errored"}

IsRelease(e) == e.op = "disconnect"

\* a transport operation that failed is the last protocol step of the run:
\* the phase is Errored and only the release follows it
FailureIsFinal ==
    \A k \in 1..Len(log) :
        ~log[k].ok =>
            /\ Phase = "Errored"
            /\ \A j \in (k + 1)..Len(log) : IsRelease(log[j])

PhaseStep ==
    /\ Rank(Phase') >= Rank(Phase)
    /\ Phase \in Terminal => Phase' = Phase
    /\ Len(log') > Len(log) =>
          /\ log'[Len(log')].op = "write" =>
                Phase \in {"Ready", "Streaming", "Flushing"}
          /\ Phase \in Terminal => IsRelease(log'[Len(log')])

\* C17: the phase never moves back along Disconnected, Connecting,
\* Negotiating, Ready, Streaming, Flushing, Closed; a write is issued only
\* in Ready, Streaming or Flushing; a failed transport operation puts the
\* run in Errored, and from Errored or Closed nothing but the release of
\* the transport happens.
C17_PhaseOrder == [](FailureIsFinal) /\ [][PhaseStep]_vars

C17_Witness ==
    /\ Phase = "Errored"
    /\ pc = "done"
    /\ Len(log) >= 6
    /\ IsWrite(log[Len(log) - 1], "chunk")
    /\ ~log[Len(log) - 1].ok
    /\ IsRelease(log[Len(log)])
    /\ Len(jobs) = 2

ScanCount == Len(scanCalls)
ConnectCount == Occurrences("connect", "")

\* the run has met a device-not-found condition or a failure
Failed == reported \/ exc # "none"

\* C18: in one run scan() is called at most once and connect is attempted
\* at most once; once the device was not found or an operation has failed,
\* no step starts a scan or a connect.
C18_NoRetry ==
    /\ [](ScanCount <= 1 /\ ConnectCount <= 1)
    /\ [][Failed => (ScanCount' = ScanCount /\ ConnectCount' = ConnectCount)]_vars

C18_Witness ==
    /\ pc = "done"
    /\ ConnectFailed
    /\ ScanCount = 1
    /\ ConnectCount = 1
    /\ exc = "BleakError"

\* line 97 has been executed: chunk_size holds the fragment size
Negotiated ==
    \/ pc \in {"prepare", "input", "render", "stream", "sleep", "finish"}
    \/ PrepareCount > 0

Terminated == pc = "done"

\* C20: with an input source of finitely many lines and transport
\* operations that each return or fail, every run of run_ble eventually
\* terminates, and a run that connected has, when it has terminated,
\* closed the transport.
C20_Terminates ==
    /\ <>Terminated
    /\ []((Terminated /\ Connected) => CloseCount = 1)

C20_Witness ==
    /\ Terminated
    /\ Connected
    /\ CloseCount = 1
    /\ exc = "none"
    /\ nread = MaxLines
    /\ Len(jobs) = MaxLines
    /\ FlushCount = 1

====
